---- MODULE Spec2Model ----
(***************************************************************************)
(* State-machine model of src/src/App.jsx (the SariGama mood-to-playlist   *)
(* single page application).  The React state of App, the two in-flight    *)
(* asynchronous flows (getRecommendations, playSong) and the handlers the  *)
(* view wires to them are modelled one action per handler step.            *)
(*                                                                         *)
(* JavaScript text is modelled by TLA+ strings (TLC evaluates Len, SubSeq, *)
(* Head, Tail and \o on strings); JavaScript values are tagged records.    *)
(***************************************************************************)
EXTENDS Integers, Sequences, FiniteSets, Bags, TLC

VARIABLES
  mood,          \* useState('Nostalgic'): the mood text
  language,      \* useState('Malayalam')
  era,           \* useState('Old')
  songs,         \* useState(null): the displayed list, a JavaScript value
  loading,       \* useState(false)
  error,         \* useState(''): the error banner's text
  currentVideo,  \* useState(null): the video identifier, a JavaScript value
  playing,       \* useState(false)
  apiKey,        \* import.meta.env.VITE_GEMINI_API_KEY
  youtubeKey,    \* import.meta.env.VITE_YOUTUBE_API_KEY
  genInFlight,   \* the generateContent calls awaiting their response, a bag of prompts
  ytInFlight,    \* the video-search fetches awaiting their response, a bag
  opened,        \* the URLs the last handler step passed to window.open
  crashed,       \* the last render threw: React unmounted the tree
  awaitingFresh, \* history: closePlayer ran and no lookup issued after it has succeeded yet
  ev             \* history: the handler step that produced this state

vars == <<mood, language, era, songs, loading, error, currentVideo, playing,
          apiKey, youtubeKey, genInFlight, ytInFlight, opened, crashed,
          awaitingFresh, ev>>

(***************************************************************************)
(* Bounds of the model                                                     *)
(***************************************************************************)
MaxGenInFlight == 2
MaxPlayInFlight == 2

(***************************************************************************)
(* JavaScript values                                                       *)
(***************************************************************************)
JUndefined == [type |-> "undefined"]
JNull == [type |-> "null"]
JBool(b) == [type |-> "boolean", b |-> b]
JNum(n) == [type |-> "number", n |-> n]
JStr(s) == [type |-> "string", s |-> s]
JArr(items) == [type |-> "array", items |-> items]
\* an object is its list of members, in insertion order
Member(k, v) == [k |-> k, v |-> v]
JObj(members) == [type |-> "object", members |-> members]

IsArray(v) == v.type = "array"
IsObject(v) == v.type = "object"

\* ToBoolean: what !x, x && y and x || y test
Truthy(v) ==
  CASE v.type = "undefined" -> FALSE
    [] v.type = "null" -> FALSE
    [] v.type = "boolean" -> v.b
    [] v.type = "number" -> v.n # 0
    [] v.type = "string" -> v.s # ""
    [] OTHER -> TRUE

RECURSIVE LookupMember(_, _, _)
LookupMember(members, k, i) ==
  IF i = 0 THEN JUndefined
  ELSE IF members[i].k = k THEN members[i].v
  ELSE LookupMember(members, k, i - 1)

\* property read v.k; it throws a TypeError on null and undefined (callers
\* test Throws first), and is undefined on the primitives of the model
GetProp(v, k) ==
  IF IsObject(v) THEN LookupMember(v.members, k, Len(v.members))
  ELSE JUndefined

RECURSIVE DigitsOf(_)
DigitsOf(n) ==
  IF n < 10 THEN SubSeq("0123456789", n + 1, n + 1)
  ELSE DigitsOf(n \div 10) \o SubSeq("0123456789", (n % 10) + 1, (n % 10) + 1)

RECURSIVE JoinItems(_, _)
\* ToString, as a template literal applies it to an interpolated value
JsToString(v) ==
  CASE v.type = "undefined" -> "undefined"
    [] v.type = "null" -> "null"
    [] v.type = "boolean" -> IF v.b THEN "true" ELSE "false"
    [] v.type = "number" -> IF v.n < 0 THEN "-" \o DigitsOf(0 - v.n) ELSE DigitsOf(v.n)
    [] v.type = "string" -> v.s
    [] v.type = "array" -> JoinItems(v.items, 1)
    [] OTHER -> "[object Object]"
JoinItems(items, i) ==
  IF i > Len(items) THEN ""
  ELSE (IF items[i].type \in {"null", "undefined"} THEN "" ELSE JsToString(items[i]))
       \o (IF i < Len(items) THEN "," ELSE "")
       \o JoinItems(items, i + 1)

(***************************************************************************)
(* String.prototype.trim, replace(/pat/g, '') and includes                 *)
(***************************************************************************)
\* s.charAt(i), 1-based: "" outside the text
CharAt(s, i) == IF i >= 1 /\ i <= Len(s) THEN SubSeq(s, i, i) ELSE ""

IsWhiteSpace(c) == c \in {" ", "\t", "\n", "\r", "\f"}

RECURSIVE TrimStart(_)
TrimStart(s) ==
  IF s # "" /\ IsWhiteSpace(Head(s)) THEN TrimStart(Tail(s)) ELSE s

RECURSIVE TrimEnd(_)
TrimEnd(s) ==
  IF s # "" /\ IsWhiteSpace(CharAt(s, Len(s))) THEN TrimEnd(SubSeq(s, 1, Len(s) - 1)) ELSE s

Trim(s) == TrimEnd(TrimStart(s))

StartsWith(s, pat) == Len(s) >= Len(pat) /\ SubSeq(s, 1, Len(pat)) = pat

RECURSIVE Includes(_, _)
Includes(s, pat) ==
  IF StartsWith(s, pat) THEN TRUE
  ELSE IF s = "" THEN FALSE
  ELSE Includes(Tail(s), pat)

\* a slip of line 116: s.replace(pat, '') without the g flag removes the
\* first match only
RECURSIVE RemoveAll_FirstOnly(_, _)
RemoveAll_FirstOnly(s, pat) ==
  IF s = "" THEN ""
  ELSE IF StartsWith(s, pat) THEN SubSeq(s, Len(pat) + 1, Len(s))
  ELSE Head(s) \o RemoveAll_FirstOnly(Tail(s), pat)

\* s.replace(/pat/g, ''): the matches are found left to right in s, without
\* overlap, and the result is not scanned again
RECURSIVE RemoveAll(_, _)
RemoveAll(s, pat) ==
  IF s = "" THEN ""
  ELSE IF StartsWith(s, pat) THEN RemoveAll(SubSeq(s, Len(pat) + 1, Len(s)), pat)
  ELSE Head(s) \o RemoveAll(Tail(s), pat)

(***************************************************************************)
(* JSON.parse.  A recursive-descent reading of the JSON grammar over the   *)
(* characters the modelled responses are written in: the structural        *)
(* characters, string literals without escape sequences, integer literals  *)
(* and the three names.  A result is [ok, val, pos]: ok is FALSE where     *)
(* JSON.parse throws a SyntaxError, pos is the index after the value.      *)
(***************************************************************************)
ParseFail == [ok |-> FALSE, val |-> JUndefined, pos |-> 0]
ParseOk(v, p) == [ok |-> TRUE, val |-> v, pos |-> p]

IsJsonWs(c) == c \in {" ", "\t", "\n", "\r"}
IsDigit(c) == c \in {"0", "1", "2", "3", "4", "5", "6", "7", "8", "9"}
DigitVal(c) == CHOOSE d \in 0..9 : SubSeq("0123456789", d + 1, d + 1) = c

RECURSIVE SkipWs(_, _)
SkipWs(s, i) == IF IsJsonWs(CharAt(s, i)) THEN SkipWs(s, i + 1) ELSE i

StartsAt(s, i, pat) ==
  i + Len(pat) - 1 <= Len(s) /\ SubSeq(s, i, i + Len(pat) - 1) = pat

\* the characters of a string literal, from the one after the opening quote
RECURSIVE ParseString(_, _, _)
ParseString(s, i, acc) ==
  LET c == CharAt(s, i) IN
  IF c = "" THEN ParseFail
  ELSE IF c = "\"" THEN ParseOk(JStr(acc), i + 1)
  ELSE IF c \in {"\n", "\t", "\r", "\f", "\\"} THEN ParseFail
  ELSE ParseString(s, i + 1, acc \o c)

RECURSIVE ParseDigits(_, _, _)
ParseDigits(s, i, acc) ==
  IF IsDigit(CharAt(s, i)) THEN ParseDigits(s, i + 1, acc * 10 + DigitVal(CharAt(s, i)))
  ELSE ParseOk(JNum(acc), i)

\* -? ( 0 | [1-9][0-9]* )
ParseNumber(s, i) ==
  LET neg == CharAt(s, i) = "-"
      j == IF neg THEN i + 1 ELSE i
      r == IF CharAt(s, j) = "0" THEN ParseOk(JNum(0), j + 1)
           ELSE IF IsDigit(CharAt(s, j)) THEN ParseDigits(s, j, 0)
           ELSE ParseFail
  IN IF r.ok /\ neg THEN ParseOk(JNum(0 - r.val.n), r.pos) ELSE r

\* a repeated name keeps its place and takes the later value
SetMember(members, k, v) ==
  IF \E n \in 1..Len(members) : members[n].k = k
  THEN [n \in 1..Len(members) |->
          IF members[n].k = k THEN Member(k, v) ELSE members[n]]
  ELSE Append(members, Member(k, v))

RECURSIVE ParseValue(_, _)
RECURSIVE ParseElements(_, _, _)
RECURSIVE ParseMembers(_, _, _)
\* a value starting at i (white space already skipped)
ParseValue(s, i) ==
  LET c == CharAt(s, i) IN
  IF c = "[" THEN
    (IF CharAt(s, SkipWs(s, i + 1)) = "]" THEN ParseOk(JArr(<<>>), SkipWs(s, i + 1) + 1)
     ELSE ParseElements(s, SkipWs(s, i + 1), <<>>))
  ELSE IF c = "{" THEN
    (IF CharAt(s, SkipWs(s, i + 1)) = "}" THEN ParseOk(JObj(<<>>), SkipWs(s, i + 1) + 1)
     ELSE ParseMembers(s, SkipWs(s, i + 1), <<>>))
  ELSE IF c = "\"" THEN ParseString(s, i + 1, "")
  ELSE IF StartsAt(s, i, "null") THEN ParseOk(JNull, i + 4)
  ELSE IF StartsAt(s, i, "true") THEN ParseOk(JBool(TRUE), i + 4)
  ELSE IF StartsAt(s, i, "false") THEN ParseOk(JBool(FALSE), i + 5)
  ELSE IF c = "-" \/ IsDigit(c) THEN ParseNumber(s, i)
  ELSE ParseFail
ParseElements(s, i, acc) ==
  LET r == ParseValue(s, i)
      j == SkipWs(s, r.pos)
  IN IF ~r.ok THEN ParseFail
     ELSE IF CharAt(s, j) = "," THEN ParseElements(s, SkipWs(s, j + 1), Append(acc, r.val))
     ELSE IF CharAt(s, j) = "]" THEN ParseOk(JArr(Append(acc, r.val)), j + 1)
     ELSE ParseFail
ParseMembers(s, i, acc) ==
  LET k == IF CharAt(s, i) = "\"" THEN ParseString(s, i + 1, "") ELSE ParseFail
      j == SkipWs(s, k.pos)
      r == IF k.ok /\ CharAt(s, j) = ":" THEN ParseValue(s, SkipWs(s, j + 1)) ELSE ParseFail
      e == SkipWs(s, r.pos)
  IN IF ~r.ok THEN ParseFail
     ELSE IF CharAt(s, e) = "," THEN ParseMembers(s, SkipWs(s, e + 1), SetMember(acc, k.val.s, r.val))
     ELSE IF CharAt(s, e) = "}" THEN ParseOk(JObj(SetMember(acc, k.val.s, r.val)), e + 1)
     ELSE ParseFail

\* JSON.parse(text): one value, white space around it, and nothing else
JSONParse(text) ==
  LET r == ParseValue(text, SkipWs(text, 1)) IN
  IF r.ok /\ SkipWs(text, r.pos) = Len(text) + 1 THEN r ELSE ParseFail

\* The lexer of TLA+ has no string literal holding the grave accent, so the
\* model writes that one character as "^", which no modelled text uses
\* otherwise.
Backtick == "^"
Fence == Backtick \o Backtick \o Backtick

\* text.replace(/[fence]json/g, '').replace(/[fence]/g, '').trim()
StripFences(text) == Trim(RemoveAll(RemoveAll(text, Fence \o "json"), Fence))

(***************************************************************************)
(* encodeURIComponent and the URLs of playSong                             *)
(***************************************************************************)
Unreserved ==
  {"-", "_", ".", "!", "~", "*", "'", "(", ")"} \cup
  {SubSeq("ABCDEFGHIJKLMNOPQRSTUVWXYZabcdefghijklmnopqrstuvwxyz0123456789", n, n) : n \in 1..62}

\* the escape of a character that is not unreserved; "^" is the grave accent
PercentEscape(c) ==
  CASE c = " " -> "%20"
    [] c = "\"" -> "%22"
    [] c = "," -> "%2C"
    [] c = ":" -> "%3A"
    [] c = "[" -> "%5B"
    [] c = "]" -> "%5D"
    [] c = "{" -> "%7B"
    [] c = "}" -> "%7D"
    [] c = "\t" -> "%09"
    [] c = "\n" -> "%0A"
    [] c = Backtick -> "%60"

RECURSIVE EncodeURIComponent(_)
EncodeURIComponent(s) ==
  IF s = "" THEN ""
  ELSE (IF Head(s) \in Unreserved THEN Head(s) ELSE PercentEscape(Head(s)))
       \o EncodeURIComponent(Tail(s))

\* the template literal on song.title and song.artist of lines 28, 43, 53, 59
TitleArtist(song) ==
  JsToString(GetProp(song, "title")) \o " " \o JsToString(GetProp(song, "artist"))

FallbackUrl(song) ==
  "https://www.youtube.com/results?search_query=" \o EncodeURIComponent(TitleArtist(song))

SearchUrl(song, key) ==
  "https://www.googleapis.com/youtube/v3/search?part=snippet&maxResults=1&q="
    \o EncodeURIComponent(TitleArtist(song) \o " official audio")
    \o "&type=video&key=" \o JsToString(key)

(***************************************************************************)
(* The view                                                                *)
(***************************************************************************)
MissingKeyMessage == "Please provide a Gemini API Key to get recommendations."
MalformedMessage == "Received a malformed response from Gemini. Please try again."

\* {playing && currentVideo && ( <player-overlay> )}
OverlayVisible == playing /\ Truthy(currentVideo)

\* disabled={loading || !mood.trim()}
GenerateDisabled == loading \/ Trim(mood) = ""

\* a value React cannot render as a child of an element
InvalidChild(v) == IsObject(v)

\* what the body of songs.map does with one element: a property read of null
\* or undefined throws, and so does an object rendered as text
CardThrows(song) ==
  \/ song.type \in {"null", "undefined"}
  \/ InvalidChild(GetProp(song, "title"))
  \/ InvalidChild(GetProp(song, "artist"))
  \/ InvalidChild(GetProp(song, "reason"))
  \/ InvalidChild(GetProp(song, "history"))

\* {songs && songs.map(...)}: a truthy value that is not an array has no map
RenderThrows(s) ==
  /\ Truthy(s)
  /\ \/ ~IsArray(s)
     \/ \E n \in 1..Len(s.items) : CardThrows(s.items[n])

\* the song cards on screen, each with its play button
Cards == IF Truthy(songs) /\ IsArray(songs) THEN songs.items ELSE <<>>

\* the prompt of lines 84-109, by the three selections it interpolates
Prompt(l, m, e) == [language |-> l, mood |-> m, era |-> e]

One(x) == SetToBag({x})

(***************************************************************************)
(* Inputs of the model                                                     *)
(***************************************************************************)
ApiKeys == {JUndefined, JStr(""), JStr("AIzaGem")}
YoutubeKeys ==
  {JUndefined, JStr(""), JStr("your_youtube_api_key_here"), JStr("AIzaTube")}

LanguageChoices == {"Malayalam", "Tamil"}
EraChoices == {"Old", "Newest"}
MoodPresets == {"Nostalgic", "Calm"}
TypedMoods == {"", " \t", " sad "}

ResponseTexts ==
  { "[{\"title\":\"A\",\"artist\":\"B\"},{\"title\":\"C\",\"artist\":\"D\"}]",
    "^^^json\n[{\"title\":\"C\",\"artist\":\"D\"}]\n^^^",
    "Here are your songs",
    "",
    "{\"title\":\"A\"}",
    "[7]",
    "[null]",
    "7",
    "null",
    "[]" }

ErrorMessages == {JUndefined, JStr("quota")}

VideoItem(id) == JObj(<< Member("id", JObj(<< Member("videoId", JStr(id)) >>)) >>)

SearchResponses ==
  { JObj(<< Member("error", JObj(<< Member("code", JNum(403)) >>)) >>),
    JObj(<< Member("items", JArr(<<>>)) >>),
    JObj(<<>>),
    JObj(<< Member("items", JArr(<< VideoItem("v1") >>)) >>),
    JObj(<< Member("items", JArr(<< VideoItem("v2"), VideoItem("v1") >>)) >>) }

(***************************************************************************)
(* Initial state: the useState initial values and the environment          *)
(***************************************************************************)
Init ==
  /\ mood = "Nostalgic"
  /\ language = "Malayalam"
  /\ era = "Old"
  /\ songs = JNull
  /\ loading = FALSE
  /\ error = ""
  /\ currentVideo = JNull
  /\ playing = FALSE
  /\ apiKey \in ApiKeys
  /\ youtubeKey \in YoutubeKeys
  /\ genInFlight = EmptyBag
  /\ ytInFlight = EmptyBag
  /\ opened = <<>>
  /\ crashed = FALSE
  /\ awaitingFresh = FALSE
  /\ ev = [op |-> "init"]

(***************************************************************************)
(* Selection handlers (lines 148-205)                                      *)
(***************************************************************************)
Quiet == /\ opened' = <<>>
         /\ UNCHANGED <<apiKey, youtubeKey, crashed>>

\* onClick={() => setLanguage(lang)}
SetLanguage(lang) ==
  /\ ~crashed
  /\ language' = lang
  /\ ev' = [op |-> "setLanguage", value |-> lang]
  /\ Quiet
  /\ UNCHANGED <<mood, era, songs, loading, error, currentVideo, playing,
                 genInFlight, ytInFlight, awaitingFresh>>

\* onClick={() => setEra(item)}
SetEra(item) ==
  /\ ~crashed
  /\ era' = item
  /\ ev' = [op |-> "setEra", value |-> item]
  /\ Quiet
  /\ UNCHANGED <<mood, language, songs, loading, error, currentVideo, playing,
                 genInFlight, ytInFlight, awaitingFresh>>

\* a slip of lines 184-188: the chip also starts the search the comment of
\* line 186 mentions
SetMood_AutoSearch(value) ==
  /\ ~crashed
  /\ mood' = value
  /\ loading' = TRUE
  /\ error' = ""
  /\ songs' = JNull
  /\ genInFlight' = IF BagCardinality(genInFlight) < MaxGenInFlight
                    THEN genInFlight (+) SetToBag({[language |-> language, mood |-> value, era |-> era]})
                    ELSE genInFlight
  /\ ev' = [op |-> "setMood", value |-> value]
  /\ opened' = <<>>
  /\ UNCHANGED <<language, era, currentVideo, playing, apiKey, youtubeKey,
                 ytInFlight, crashed, awaitingFresh>>

\* the mood chips' onClick and the text field's onChange: setMood(value)
SetMood(value) ==
  /\ ~crashed
  /\ mood' = value
  /\ ev' = [op |-> "setMood", value |-> value]
  /\ Quiet
  /\ UNCHANGED <<language, era, songs, loading, error, currentVideo, playing,
                 genInFlight, ytInFlight, awaitingFresh>>

(***************************************************************************)
(* getRecommendations (lines 68-132)                                       *)
(***************************************************************************)
\* a slip of line 69: the test without the trim
BlankMood_NoTrim(m) == m = ""

\* if (!mood.trim()) return;
BlankMood(m) == Trim(m) = ""

\* a slip of line 70: the test against undefined only
MissingApiKey_UndefinedOnly(k) == k.type = "undefined"

\* if (!apiKey)
MissingApiKey(k) == ~Truthy(k)

\* whether this call gets as far as generateContent
Submits == ~BlankMood(mood) /\ ~MissingApiKey(apiKey)

\* lines 68-111, up to the await: via is "click" or "enter"
getRecommendations(via) ==
  /\ ~crashed
  /\ Submits => BagCardinality(genInFlight) < MaxGenInFlight
  /\ IF BlankMood(mood) THEN
       UNCHANGED <<loading, error, songs, genInFlight>>
     ELSE IF MissingApiKey(apiKey) THEN
       /\ error' = MissingKeyMessage
       /\ UNCHANGED <<loading, songs, genInFlight>>
     ELSE
       /\ loading' = TRUE
       /\ error' = ""
       /\ songs' = JNull
       /\ genInFlight' = genInFlight (+) One(Prompt(language, mood, era))
  /\ ev' = [op |-> "getRecommendations", via |-> via]
  /\ Quiet
  /\ UNCHANGED <<mood, language, era, currentVideo, playing, ytInFlight, awaitingFresh>>

\* <button id="generate-btn" onClick={getRecommendations} disabled={...}>
ClickGenerate ==
  /\ ~GenerateDisabled
  /\ getRecommendations("click")

\* onKeyDown={(e) => e.key === 'Enter' && getRecommendations()}
PressEnter == getRecommendations("enter")

\* lines 113-119: the text of the response, stripped and parsed (a function,
\* so that each response text is parsed once)
ParsedResponse[text \in ResponseTexts] == JSONParse(StripFences(text))

\* `Failed: ${err.message || "Check API key"}`
FailedMessage(message) ==
  "Failed: " \o (IF Truthy(message) THEN JsToString(message) ELSE "Check API key")

\* a slip of line 120: an empty array is not stored
ResolvedSongs_SkipsEmpty(prev, text) ==
  IF ParsedResponse[text].ok /\ Truthy(ParsedResponse[text].val)
     /\ (IsArray(ParsedResponse[text].val) => ParsedResponse[text].val.items # <<>>)
  THEN ParsedResponse[text].val
  ELSE prev

\* lines 118-120: setSongs(data) when the parse did not throw
ResolvedSongs(prev, text) ==
  IF ParsedResponse[text].ok THEN ParsedResponse[text].val ELSE prev

\* lines 121-125: setError(...) when the parse threw
ResolvedError(prev, text) ==
  IF ParsedResponse[text].ok THEN prev ELSE MalformedMessage

\* lines 111-131 after the await, when the call for prompt p resolved with text
GenResolve(p, text) ==
  /\ ~crashed
  /\ BagIn(p, genInFlight)
  /\ songs' = ResolvedSongs(songs, text)
  /\ error' = ResolvedError(error, text)
  /\ loading' = FALSE
  /\ genInFlight' = genInFlight (-) One(p)
  /\ crashed' = RenderThrows(songs')
  /\ opened' = <<>>
  /\ ev' = [op |-> "genResolve", text |-> text]
  /\ UNCHANGED <<mood, language, era, currentVideo, playing, apiKey, youtubeKey,
                 ytInFlight, awaitingFresh>>

\* lines 126-131: generateContent (or reading its response) threw err
GenReject(p, message) ==
  /\ ~crashed
  /\ BagIn(p, genInFlight)
  /\ error' = FailedMessage(message)
  /\ loading' = FALSE
  /\ genInFlight' = genInFlight (-) One(p)
  /\ ev' = [op |-> "genReject", message |-> message]
  /\ Quiet
  /\ UNCHANGED <<mood, language, era, songs, currentVideo, playing, ytInFlight,
                 awaitingFresh>>

(***************************************************************************)
(* playSong and closePlayer (lines 25-66)                                  *)
(***************************************************************************)
\* a slip of line 27: the placeholder is taken for a key
NoPlaybackKey_NoPlaceholder(k) == ~Truthy(k)

\* if (!youtubeKey || youtubeKey.includes('your_youtube_api_key'))
NoPlaybackKey(k) == ~Truthy(k) \/ Includes(k.s, "your_youtube_api_key")

\* history kept with each lookup: whether the overlay has been on screen
\* since the lookup was issued
MarkSeen(q, visible) ==
  LET Seen(r) == [r EXCEPT !.overlaySeen = @ \/ visible] IN BagOfAll(Seen, q)

\* history kept with each lookup: closePlayer ran while it was in flight
MarkPreClose(q) ==
  LET Pre(r) == [r EXCEPT !.preClose = TRUE] IN BagOfAll(Pre, q)

\* the fetch of line 36, with the history kept for it
Lookup(song) ==
  [song |-> song, url |-> SearchUrl(song, youtubeKey),
   overlaySeen |-> Truthy(currentVideo), preClose |-> FALSE]

\* lines 25-36, up to the await: the play button of card n
playSong(n) ==
  /\ ~crashed
  /\ n \in 1..Len(Cards)
  /\ ~NoPlaybackKey(youtubeKey) => BagCardinality(ytInFlight) < MaxPlayInFlight
  /\ IF NoPlaybackKey(youtubeKey) THEN
       /\ opened' = <<FallbackUrl(Cards[n])>>
       /\ UNCHANGED <<playing, ytInFlight>>
     ELSE
       /\ playing' = TRUE
       /\ opened' = <<>>
       /\ ytInFlight' = MarkSeen(ytInFlight, Truthy(currentVideo)) (+) One(Lookup(Cards[n]))
  /\ ev' = [op |-> "playSong", song |-> Cards[n]]
  /\ UNCHANGED <<mood, language, era, songs, loading, error, currentVideo,
                 apiKey, youtubeKey, genInFlight, crashed, awaitingFresh>>

\* if (data.items && data.items.length > 0)
HasResults(data) ==
  /\ Truthy(GetProp(data, "items"))
  /\ IsArray(GetProp(data, "items"))
  /\ Len(GetProp(data, "items").items) > 0

FirstItem(data) == GetProp(data, "items").items[1]

\* data.items[0].id.videoId
FirstVideoId(data) == GetProp(GetProp(FirstItem(data), "id"), "videoId")

\* the property reads of lines 39-48 that throw a TypeError into the catch
ReadThrows(data) ==
  \/ data.type \in {"null", "undefined"}
  \/ /\ ~Truthy(GetProp(data, "error"))
     /\ HasResults(data)
     /\ \/ FirstItem(data).type \in {"null", "undefined"}
        \/ GetProp(FirstItem(data), "id").type \in {"null", "undefined"}

\* lines 39-54 take the success path of line 48
PlaySucceeds(data) ==
  ~ReadThrows(data) /\ ~Truthy(GetProp(data, "error")) /\ HasResults(data)

\* setPlaying(false); window.open(fallback) of lines 41-43, 52-53 and 58-59
PlayFallback(r) ==
  /\ playing' = FALSE
  /\ opened' = <<FallbackUrl(r.song)>>
  /\ UNCHANGED <<currentVideo, awaitingFresh>>

\* lines 37-60 after the await, when lookup r resolved and its body is data
YtResolve(r, data) ==
  /\ ~crashed
  /\ BagIn(r, ytInFlight)
  /\ IF PlaySucceeds(data) THEN
       /\ currentVideo' = FirstVideoId(data)
       /\ opened' = <<>>
       /\ awaitingFresh' = (awaitingFresh /\ r.preClose)
       /\ UNCHANGED playing
     ELSE PlayFallback(r)
  /\ ytInFlight' = MarkSeen(ytInFlight (-) One(r), playing' /\ Truthy(currentVideo'))
  /\ ev' = [op |-> "ytResolve", data |-> data, req |-> r]
  /\ UNCHANGED <<mood, language, era, songs, loading, error, apiKey, youtubeKey,
                 genInFlight, crashed>>

\* lines 55-60: fetch or response.json() threw
YtReject(r) ==
  /\ ~crashed
  /\ BagIn(r, ytInFlight)
  /\ PlayFallback(r)
  /\ ytInFlight' = ytInFlight (-) One(r)
  /\ ev' = [op |-> "ytReject", req |-> r]
  /\ UNCHANGED <<mood, language, era, songs, loading, error, apiKey, youtubeKey,
                 genInFlight, crashed>>

\* a slip of lines 63-66: dismissing the overlay also clears the list
closePlayer_ClearsSongs ==
  /\ ~crashed
  /\ OverlayVisible
  /\ playing' = FALSE
  /\ currentVideo' = JNull
  /\ songs' = JNull
  /\ ytInFlight' = MarkPreClose(ytInFlight)
  /\ awaitingFresh' = TRUE
  /\ ev' = [op |-> "closePlayer"]
  /\ Quiet
  /\ UNCHANGED <<mood, language, era, loading, error, genInFlight>>

\* lines 63-66, reachable from the overlay only (lines 272 and 281)
closePlayer ==
  /\ ~crashed
  /\ OverlayVisible
  /\ playing' = FALSE
  /\ currentVideo' = JNull
  /\ ytInFlight' = MarkPreClose(ytInFlight)
  /\ awaitingFresh' = TRUE
  /\ ev' = [op |-> "closePlayer"]
  /\ Quiet
  /\ UNCHANGED <<mood, language, era, songs, loading, error, genInFlight>>

(***************************************************************************)
(* The specifications                                                      *)
(***************************************************************************)
\* the recommendation flow: the selection surface and getRecommendations
NextGen ==
  \/ \E lang \in LanguageChoices : SetLanguage(lang)
  \/ \E item \in EraChoices : SetEra(item)
  \/ \E value \in MoodPresets \cup TypedMoods : SetMood(value)
  \/ ClickGenerate
  \/ PressEnter
  \/ \E p \in BagToSet(genInFlight), text \in ResponseTexts : GenResolve(p, text)
  \/ \E p \in BagToSet(genInFlight), message \in ErrorMessages : GenReject(p, message)

\* the playback flow
NextPlay ==
  \/ \E n \in 1..Len(Cards) : playSong(n)
  \/ \E r \in BagToSet(ytInFlight), data \in SearchResponses : YtResolve(r, data)
  \/ \E r \in BagToSet(ytInFlight) : YtReject(r)
  \/ closePlayer

Next == NextGen \/ NextPlay

Spec == Init /\ [][Next]_vars

\* the recommendation flow never reads the playback key: one value of it
InitGen == Init /\ youtubeKey = JStr("AIzaTube")

SpecGen == InitGen /\ [][NextGen]_vars

\* the state after the first recommendation call, issued from the initial
\* selections, resolved with a list the view renders
InitPlay ==
  /\ mood = "Nostalgic"
  /\ language = "Malayalam"
  /\ era = "Old"
  /\ \E text \in ResponseTexts :
       /\ ParsedResponse[text].ok
       /\ Truthy(ParsedResponse[text].val)
       /\ ~RenderThrows(ParsedResponse[text].val)
       /\ songs = ParsedResponse[text].val
       /\ ev = [op |-> "genResolve", text |-> text]
  /\ loading = FALSE
  /\ error = ""
  /\ currentVideo = JNull
  /\ playing = FALSE
  /\ apiKey \in {k \in ApiKeys : ~MissingApiKey(k)}
  /\ youtubeKey \in YoutubeKeys
  /\ genInFlight = EmptyBag
  /\ ytInFlight = EmptyBag
  /\ opened = <<>>
  /\ crashed = FALSE
  /\ awaitingFresh = FALSE

SpecPlay == InitPlay /\ [][NextPlay]_vars

\* both flows together, on fewer inputs: one other language and mood, a list and an
\* unparseable text as responses, a result and an empty result as search
\* answers
BothTexts ==
  { "[{\"title\":\"A\",\"artist\":\"B\"},{\"title\":\"C\",\"artist\":\"D\"}]",
    "Here are your songs" }

BothResponses ==
  { JObj(<< Member("items", JArr(<< VideoItem("v1") >>)) >>),
    JObj(<< Member("items", JArr(<<>>)) >>) }

InitBoth == Init /\ apiKey = JStr("AIzaGem") /\ youtubeKey = JStr("AIzaTube")

NextBoth ==
  \/ SetLanguage("Tamil")
  \/ SetMood("Calm")
  \/ ClickGenerate
  \/ PressEnter
  \/ \E p \in BagToSet(genInFlight), text \in BothTexts : GenResolve(p, text)
  \/ \E p \in BagToSet(genInFlight) : GenReject(p, JUndefined)
  \/ \E n \in 1..Len(Cards) : playSong(n)
  \/ \E r \in BagToSet(ytInFlight), data \in BothResponses : YtResolve(r, data)
  \/ \E r \in BagToSet(ytInFlight) : YtReject(r)
  \/ closePlayer

SpecBoth == InitBoth /\ [][NextBoth]_vars

\* the fence stripping of line 116 on its own, over response texts put
\* together from at most MaxPieces pieces: a grave accent, a fence, the word
\* json, a space and another character
MaxPieces == 6

Pieces == { Backtick, Fence, "json", " ", "a" }

RECURSIVE TextsUpTo(_)
TextsUpTo(n) ==
  IF n = 0 THEN { "" }
  ELSE LET shorter == TextsUpTo(n - 1)
       IN shorter \cup { t \o piece : t \in shorter, piece \in Pieces }

\* after line 113: text holds the response's text
InitStrip ==
  /\ mood = "Nostalgic"
  /\ language = "Malayalam"
  /\ era = "Old"
  /\ songs = JNull
  /\ loading = TRUE
  /\ error = ""
  /\ currentVideo = JNull
  /\ playing = FALSE
  /\ apiKey = JStr("AIzaGem")
  /\ youtubeKey = JStr("AIzaTube")
  /\ genInFlight = EmptyBag
  /\ ytInFlight = EmptyBag
  /\ opened = <<>>
  /\ crashed = FALSE
  /\ awaitingFresh = FALSE
  /\ ev \in { [op |-> "text", text |-> t] : t \in TextsUpTo(MaxPieces) }

\* line 116: text = text.replace(...).replace(...).trim()
StripText ==
  /\ ev.op = "text"
  /\ ev' = [op |-> "strip", text |-> ev.text, out |-> StripFences(ev.text)]
  /\ UNCHANGED <<mood, language, era, songs, loading, error, currentVideo,
                 playing, apiKey, youtubeKey, genInFlight, ytInFlight, opened,
                 crashed, awaitingFresh>>

NextStrip == StripText

SpecStrip == InitStrip /\ [][NextStrip]_vars

TypeOK ==
  /\ loading \in BOOLEAN
  /\ playing \in BOOLEAN
  /\ BagCardinality(genInFlight) <= MaxGenInFlight
  /\ BagCardinality(ytInFlight) <= MaxPlayInFlight

(***************************************************************************)
(* Properties                                                              *)
(***************************************************************************)
Song(title, artist) == JObj(<< Member("title", JStr(title)), Member("artist", JStr(artist)) >>)

\* C1: a call of getRecommendations (generate button or Enter key) made while
\* the mood text is empty or holds white space only issues no generation
\* call and leaves loading, error and songs as they were.
C1_BlankMoodIgnored ==
  [][(ev'.op = "getRecommendations" /\ Trim(mood) = "")
       => UNCHANGED <<genInFlight, loading, error, songs>>]_vars

\* C1 witness: Enter was pressed on a white-space-only mood, with a
\* generation credential configured.
C1_Witness ==
  /\ ev.op = "getRecommendations"
  /\ ev.via = "enter"
  /\ mood = " \t"
  /\ Truthy(apiKey)

\* C2, as stated: every call of getRecommendations made while no generation
\* credential is configured sets error to the missing-key message and issues
\* no generation call, whatever the mood text is.
C2_Original ==
  [][(ev'.op = "getRecommendations" /\ ~Truthy(apiKey))
       => (error' = MissingKeyMessage /\ UNCHANGED genInFlight)]_vars

\* C2, amended: every call of getRecommendations made with a mood text that is
\* not blank after trimming, while no generation credential is configured,
\* sets error to the missing-key message and issues no generation call.
C2_MissingKey ==
  [][(ev'.op = "getRecommendations" /\ ~Truthy(apiKey) /\ Trim(mood) # "")
       => (error' = MissingKeyMessage /\ UNCHANGED genInFlight)]_vars

\* C2 witness: a submission with the credential set to the empty string and a
\* mood chosen has shown the missing-key message.
C2_Witness ==
  /\ ev.op = "getRecommendations"
  /\ apiKey = JStr("")
  /\ mood = "Calm"
  /\ error = MissingKeyMessage
  /\ genInFlight = EmptyBag

\* C3: when a generation response completes whose text, stripped of its
\* fences, parses as a JSON array, songs is exactly that array afterwards.
C3_ArrayReplacesList ==
  (/\ ev.op = "genResolve"
   /\ JSONParse(StripFences(ev.text)).ok
   /\ IsArray(JSONParse(StripFences(ev.text)).val))
    => songs = JSONParse(StripFences(ev.text)).val

\* C3 witness: the fenced response has completed and the list holds its one
\* record.
C3_Witness ==
  /\ ev.op = "genResolve"
  /\ ev.text = "^^^json\n[{\"title\":\"C\",\"artist\":\"D\"}]\n^^^"
  /\ songs = JArr(<< Song("C", "D") >>)

\* C3 witness of the order: the response with two records has completed.
C3_WitnessOrder ==
  /\ ev.op = "genResolve"
  /\ songs = JArr(<< Song("A", "B"), Song("C", "D") >>)

\* C4, as stated: after the completion of a generation response whose text
\* does not parse as JSON, songs is null and error is the malformed-response
\* message, in every interleaving with other recommendation requests.
C4_Original ==
  (ev.op = "genResolve" /\ ~JSONParse(StripFences(ev.text)).ok)
    => (songs = JNull /\ error = MalformedMessage)

\* C5, as stated: songs is always null or an array of objects, and the
\* render of the list never throws.
C5_Original ==
  /\ \/ songs = JNull
     \/ /\ IsArray(songs)
        /\ \A n \in 1..Len(songs.items) : IsObject(songs.items[n])
  /\ ~crashed

\* the key is absent or still the placeholder of the environment file
PlaybackKeyUnset ==
  youtubeKey \in {JUndefined, JStr(""), JStr("your_youtube_api_key_here")}

\* C6: a call of playSong made while no playback credential is configured
\* issues no video-search call, opens exactly one external search link, for
\* that song's title and artist, and leaves playing and currentVideo as they
\* were.
C6_NoKeyFallsBack ==
  [][(ev'.op = "playSong" /\ PlaybackKeyUnset)
       => /\ UNCHANGED <<ytInFlight, playing, currentVideo>>
          /\ opened' = <<FallbackUrl(ev'.song)>>]_vars

\* C6 witness: with the placeholder key, the play button of the card of
\* song A by B has opened the search link for "A B".
C6_Witness ==
  /\ ev.op = "playSong"
  /\ youtubeKey = JStr("your_youtube_api_key_here")
  /\ ev.song = Song("A", "B")
  /\ opened = << "https://www.youtube.com/results?search_query=A%20B" >>
  /\ ytInFlight = EmptyBag
  /\ ~playing

\* the search answered with an error payload or with no results
SearchFailed(data) == Truthy(GetProp(data, "error")) \/ ~HasResults(data)

\* C7, as stated: for a lookup that returns zero results or an error payload,
\* the overlay has stayed closed since the lookup was issued, is closed after
\* the completion, and the fallback link of the lookup's song was opened.
C7_Original ==
  (ev.op = "ytResolve" /\ SearchFailed(ev.data))
    => /\ ~ev.req.overlaySeen
       /\ ~OverlayVisible
       /\ opened = <<FallbackUrl(ev.req.song)>>

\* C8, as stated: closePlayer clears currentVideo and playing, and from then
\* on the overlay is not visible until a lookup issued after the dismissal
\* has completed with a result.
C8_Original ==
  /\ ev.op = "closePlayer" => (currentVideo = JNull /\ ~playing)
  /\ awaitingFresh => ~OverlayVisible

\* C9, as stated: right after a lookup completes with a non-empty result
\* list, the overlay is open and shows the first result's identifier.
C9_Original ==
  (ev.op = "ytResolve" /\ ~Truthy(GetProp(ev.data, "error")) /\ HasResults(ev.data))
    => (OverlayVisible /\ currentVideo = FirstVideoId(ev.data))

\* C10, as stated: loading is true in every state with a generation request
\* in flight, and a request begins with songs null and error empty.
C10_Original ==
  /\ genInFlight # EmptyBag => loading
  /\ (ev.op = "getRecommendations" /\ Trim(mood) # "" /\ Truthy(apiKey))
       => (songs = JNull /\ error = "")

\* C11, as stated: a generation request is started only in states where the
\* trimmed mood text is not empty and loading is false, whichever trigger
\* (generate button or Enter key) started it.
C11_Original ==
  [][(/\ ev'.op = "getRecommendations"
      /\ BagCardinality(genInFlight') > BagCardinality(genInFlight))
       => (Trim(mood) # "" /\ ~loading)]_vars

\* C12, as stated, in the form a finite run refutes: once every issued
\* generation call has returned or thrown, loading is false, the view is
\* still mounted (so that a new submission is accepted), and either songs is
\* set or error is a non-empty message.
C12_Original ==
  (genInFlight = EmptyBag /\ ev.op \in {"genResolve", "genReject"})
    => /\ ~loading
       /\ ~crashed
       /\ (songs # JNull \/ error # "")

\* C13: choosing a language, era or mood preset sets that selection to the
\* chosen value and leaves the two other selections, songs, loading, error,
\* playing and currentVideo as they were; the requests in flight keep the
\* parameters they were issued with.
C13_SelectionFrame ==
  [][/\ ev'.op = "setLanguage"
          => /\ language' = ev'.value
             /\ UNCHANGED <<mood, era, songs, loading, error, playing,
                            currentVideo, genInFlight>>
     /\ ev'.op = "setEra"
          => /\ era' = ev'.value
             /\ UNCHANGED <<mood, language, songs, loading, error, playing,
                            currentVideo, genInFlight>>
     /\ ev'.op = "setMood"
          => /\ mood' = ev'.value
             /\ UNCHANGED <<language, era, songs, loading, error, playing,
                            currentVideo, genInFlight>>]_vars

\* C13 witness: the language was changed to Tamil while a request issued for
\* Malayalam is in flight, and that request still asks for Malayalam.
C13_Witness ==
  /\ ev.op = "setLanguage"
  /\ language = "Tamil"
  /\ loading
  /\ \E p \in BagToSet(genInFlight) : p.language = "Malayalam"

\* C14, as stated: once every request in flight has completed, songs and
\* error hold what the response that completed last wrote, with nothing left
\* over from a response that completed earlier: the state is the one that
\* last response gives on its own, from the cleared state of lines 76-77.
C14_Original ==
  /\ (genInFlight = EmptyBag /\ ev.op = "genResolve")
       => /\ songs = ResolvedSongs(JNull, ev.text)
          /\ error = ResolvedError("", ev.text)
  /\ (genInFlight = EmptyBag /\ ev.op = "genReject")
       => /\ songs = JNull
          /\ error = FailedMessage(ev.message)

\* C16, as stated: the error banner and a song list are never shown
\* together: error is non-empty only if songs is null, and songs is non-null
\* only if error is empty.
C16_Original ==
  /\ error # "" => songs = JNull
  /\ songs # JNull => error = ""

\* C17, as stated: with no playback lookup in flight, playing is true
\* exactly when currentVideo is non-null.
C17_Original ==
  ytInFlight = EmptyBag => (playing <=> currentVideo # JNull)

\* C15: no step of getRecommendations (its start or a completion) changes
\* playing, currentVideo or the lookups in flight, and no step of playSong (its
\* start or a completion) or closePlayer changes songs, loading, error, mood,
\* language, era or the requests in flight: the two flows write disjoint
\* state.
C15_DisjointFlows ==
  [][/\ ev'.op \in {"getRecommendations", "genResolve", "genReject"}
          => UNCHANGED <<playing, currentVideo, ytInFlight>>
     /\ ev'.op \in {"playSong", "ytResolve", "ytReject", "closePlayer"}
          => UNCHANGED <<songs, loading, error, mood, language, era,
                         genInFlight>>]_vars

\* C15 witness: the two flows interleaved: a lookup issued from the first
\* list completed with a video while a later recommendation request is in
\* flight, and the request's cleared list and loading flag are as it left
\* them.
C15_Witness ==
  /\ ev.op = "ytResolve"
  /\ currentVideo = JStr("v1")
  /\ playing
  /\ genInFlight # EmptyBag
  /\ loading
  /\ songs = JNull

\* C18: the fence stripping of line 116 leaves no run of three grave accents
\* in the text, and stripping its output again returns the same text.
C18_StripFences ==
  ev.op = "strip"
    => /\ ~Includes(ev.out, Fence)
       /\ StripFences(ev.out) = ev.out

\* C18 witness: a text in which removing the fence-json marker puts three
\* grave accents next to each other, which the second replacement removes.
C18_Witness ==
  /\ ev.op = "strip"
  /\ ev.text = Backtick \o Backtick \o Fence \o "json" \o Backtick \o "a"
  /\ ev.out = "a"

====
